---- MODULE Spec2Model ----
(***************************************************************************)
(* Model of the download manager (src/src/download_manager.py):           *)
(* DownloadTask, HttpxDownloadManager and the worker thread                *)
(* HttpxDownloadManager._download_file.                                    *)
(*                                                                         *)
(* A task is identified by the order of its creation (1, 2, ...); every    *)
(* task has its own destination path, so the files of task t are           *)
(* finalFile[t] (full_path) and tmpFile[t] (full_path + ".tmp").  What is  *)
(* on disk at a destination before its task is created is an input of     *)
(* add_download.  A file is the sequence of its bytes; the resource served *)
(* for every URL is Resource, and a chunk of the response is one byte.     *)
(***************************************************************************)
EXTENDS Integers, Sequences, FiniteSets, TLC

\* ---------------------------------------------------------------- bounds
NTasks == 3
MaxCeiling == 2
MaxRetriesBound == 1
ResourceSize == 3
\* a run creates as many tasks as fit into this many bytes of resources:
\* NTasks tasks of one byte, ..., one task of ResourceSize bytes
MaxWork == 3
\* at most this many injected transfer failures, stop requests and
\* simultaneously paused tasks
MaxFaults == 2
MaxStops == 1
MaxPaused == 1
\* at most this many of them together in one run
MaxDisturbances == 2
\* submissions in the runs of the fair, the lock and the settings specification
MaxSubmissions == 2

\* ------------------------------------------------------------- constants
QUEUED == "queued"
DOWNLOADING == "downloading"
PAUSED == "paused"
COMPLETED == "completed"
ERROR == "error"
STOPPED == "stopped"

DownloadStatus == {QUEUED, DOWNLOADING, PAUSED, COMPLETED, ERROR, STOPPED}
Terminal == {COMPLETED, ERROR, STOPPED}

\* the value of a file that does not exist (no file holds the byte -1)
Absent == <<-1>>
TaskIds == 1..NTasks

VARIABLES
    n_tasks,                   \* the number of tasks the caller creates in this run
    n_bytes,                   \* the size of the resource the server holds
    omit_length,               \* whether the server may leave out content-length
    max_concurrent_downloads,  \* HttpxDownloadManager.max_concurrent_downloads
    max_retries,               \* HttpxDownloadManager.max_retries
    tasks,                     \* HttpxDownloadManager.tasks: the ids, in list order
    active_downloads,          \* HttpxDownloadManager.active_downloads
    task,                      \* the fields of every DownloadTask
    created,                   \* number of DownloadTask objects created so far
    workers,                   \* live worker threads: <<task, attempt>> -> [pc, body]
    tmpFile,                   \* per task: the bytes of full_path + ".tmp", or Absent
    finalFile,                 \* per task: the bytes of full_path, or Absent
    attempts,                  \* history: workers launched per task
    failures,                  \* history: failed attempts per task (except-branch runs)
    stopAborts,                \* history: attempts of the task aborted on the stopped flag
    stopBytes,                 \* history: downloaded_size when the stop was observed
    cbCount,                   \* history: completion_callback invocations per task
    lastRange,                 \* history: start_byte of the task's last request (-1: none)
    returned,                  \* history: what add_download returned for the task
    unreported,                \* history: a status was written after the last update_callback
    old_tasks,                 \* tasks of the manager that show_settings replaced
    old_active_downloads,      \* active_downloads of the replaced manager
    old_max_concurrent_downloads, \* its ceiling (0: no manager was replaced)
    old_workers,               \* the live workers that run on the replaced manager
    download_lock,             \* HttpxDownloadManager.download_lock: its holder, or Unlocked
    gui,                       \* where the GUI thread is inside add_download
    calls,                     \* history, per task: "paused" after a pause_download that
                               \* set the flag, "resumed" after a resume_download called next
    rebuilt                    \* cleanup_completed: the list it has built and not yet
                               \* assigned to self.tasks, or NotRebuilding

\* the manager left behind by show_settings, and the threads that still use it
managerVars == <<old_tasks, old_active_downloads, old_max_concurrent_downloads, old_workers>>
\* the lock and the position of the GUI thread
lockVars == <<download_lock, gui>>
\* the record of the caller's pause and resume calls, and its cleanup call in
\* progress
callVars == <<calls, rebuilt>>

vars == <<n_tasks, n_bytes, omit_length, max_concurrent_downloads, max_retries, tasks, active_downloads, task,
          created, workers, tmpFile, finalFile, attempts, failures, stopAborts,
          stopBytes, cbCount, lastRange, returned, unreported, managerVars, lockVars,
          callVars>>

\* download_lock when no thread holds it, and the GUI thread as a holder
Unlocked == <<>>
GuiThread == <<0, 0>>
\* rebuilt when no cleanup_completed call is in progress
NotRebuilding == <<0>>

\* the resource served for every URL: byte i holds i
Resource == [i \in 1..n_bytes |-> i]

\* DownloadTask.__init__
NewTask ==
    [status |-> QUEUED, progress |-> 0, total_size |-> 0, downloaded_size |-> 0,
     paused |-> FALSE, stopped |-> FALSE, retry_count |-> 0, error_message |-> ""]

\* DownloadTask.exists
exists(ff, t) == ff[t] # Absent

\* the tasks add_download has accepted so far
Submitted == {t \in 1..created : returned[t] # "raised"}

InList(t) == \E i \in 1..Len(tasks) : tasks[i] = t

\* injected failures so far: the failed attempts that no stop request caused
RECURSIVE Sum(_, _)
Sum(f, S) == IF S = {} THEN 0 ELSE LET x == CHOOSE y \in S : TRUE
                                   IN  f[x] + Sum(f, S \ {x})

Faults == Sum(failures, TaskIds) - Sum(stopAborts, TaskIds)

\* what the environment has done to the run: injected failures, stop requests
\* and pause requests in force
Disturbances ==
    Faults + Cardinality({u \in TaskIds : task[u].stopped})
           + Cardinality({u \in TaskIds : task[u].paused})

MayDisturb == Disturbances < MaxDisturbances
MayFail == Faults < MaxFaults /\ MayDisturb

\* --------------------------------------------------------------- scheduler
\* the loop of _start_next_download: the position in the list of the first
\* task whose status is QUEUED, 0 when there is none
FirstQueued_Last(tk, lst) ==
    LET idx == {i \in 1..Len(lst) : tk[lst[i]].status = QUEUED}
    IN  IF idx = {} THEN 0 ELSE CHOOSE i \in idx : \A j \in idx : i >= j

FirstQueued_Any(tk, lst) ==
    LET idx == {i \in 1..Len(lst) : tk[lst[i]].status \in {QUEUED, DOWNLOADING}}
    IN  IF idx = {} THEN 0 ELSE CHOOSE i \in idx : \A j \in idx : i <= j

FirstQueued(tk, lst) ==
    LET idx == {i \in 1..Len(lst) : tk[lst[i]].status = QUEUED}
    IN  IF idx = {} THEN 0 ELSE CHOOSE i \in idx : \A j \in idx : i <= j

start_next_download_NoCeiling(tk, lst, act, wk, att) ==
    LET i == FirstQueued(tk, lst) IN
    IF i = 0
    THEN [task |-> tk, active |-> act, workers |-> wk, attempts |-> att]
    ELSE LET t == lst[i] IN
         [task |-> [tk EXCEPT ![t].status = DOWNLOADING],
          active |-> act + 1,
          workers |-> wk @@ (<<t, att[t] + 1>> :> [pc |-> "begin", body |-> <<>>]),
          attempts |-> [att EXCEPT ![t] = @ + 1]]

\* HttpxDownloadManager._start_next_download, the whole locked section:
\* from the task fields tk, the list lst, the active count act, the live
\* workers wk and the launch counts att to their values afterwards
start_next_download_NoCount(ceiling, tk, lst, act, wk, att) ==
    LET i == FirstQueued(tk, lst) IN
    IF act >= ceiling \/ i = 0
    THEN [task |-> tk, active |-> act, workers |-> wk, attempts |-> att]
    ELSE LET t == lst[i] IN
         [task |-> [tk EXCEPT ![t].status = DOWNLOADING],
          active |-> act,
          workers |-> wk @@ (<<t, att[t] + 1>> :> [pc |-> "begin", body |-> <<>>]),
          attempts |-> [att EXCEPT ![t] = @ + 1]]

start_next_download_of(ceiling, tk, lst, act, wk, att) ==
    LET i == FirstQueued(tk, lst) IN
    IF act >= ceiling \/ i = 0
    THEN [task |-> tk, active |-> act, workers |-> wk, attempts |-> att]
    ELSE LET t == lst[i] IN
         [task |-> [tk EXCEPT ![t].status = DOWNLOADING],
          active |-> act + 1,
          workers |-> wk @@ (<<t, att[t] + 1>> :> [pc |-> "begin", body |-> <<>>]),
          attempts |-> [att EXCEPT ![t] = @ + 1]]

\* _start_next_download of the manager in use
start_next_download(tk, lst, act, wk, att) ==
    start_next_download_of(max_concurrent_downloads, tk, lst, act, wk, att)

\* what may be found at a destination when its task is created: the final
\* file, nothing, a partial .tmp file of k bytes left by an earlier run, or a
\* destination directory that is missing and cannot be created
DiskStates ==
    {[final |-> Resource, tmp |-> Absent, dir |-> TRUE],
     [final |-> Absent, tmp |-> Absent, dir |-> TRUE],
     [final |-> Absent, tmp |-> Absent, dir |-> FALSE]}
    \cup {[final |-> Absent, tmp |-> SubSeq(Resource, 1, k), dir |-> TRUE] :
             k \in 1..(n_bytes - 1)}

add_download_StartsNext(t, d) ==
    /\ created' = t
    /\ finalFile' = [finalFile EXCEPT ![t] = d.final]
    /\ tmpFile' = [tmpFile EXCEPT ![t] = d.tmp]
    /\ IF ~exists(finalFile', t) /\ ~d.dir
       THEN /\ returned' = [returned EXCEPT ![t] = "raised"]
            /\ UNCHANGED <<tasks, task, active_downloads, workers, attempts,
                           unreported>>
       ELSE /\ tasks' = Append(tasks, t)
            /\ LET tk == IF exists(finalFile', t)
                         THEN [task EXCEPT ![t].status = COMPLETED, ![t].progress = 100]
                         ELSE task
                   r == start_next_download(tk, tasks', active_downloads, workers,
                                            attempts)
               IN  /\ task' = r.task
                   /\ active_downloads' = r.active
                   /\ workers' = r.workers
                   /\ attempts' = r.attempts
                   /\ unreported' = (unreported \/ r.task # task)
                   /\ returned' = [returned EXCEPT ![t] =
                                     IF exists(finalFile', t) THEN "false" ELSE "true"]
    /\ UNCHANGED <<managerVars, lockVars, callVars, n_tasks, n_bytes, omit_length, max_concurrent_downloads,
                   max_retries, failures, stopAborts, stopBytes, cbCount, lastRange>>

add_download_AppendFirst(t, d) ==
    /\ created' = t
    /\ finalFile' = [finalFile EXCEPT ![t] = d.final]
    /\ tmpFile' = [tmpFile EXCEPT ![t] = d.tmp]
    /\ tasks' = Append(tasks, t)
    /\ IF exists(finalFile', t)
       THEN /\ task' = [task EXCEPT ![t].status = COMPLETED, ![t].progress = 100]
            /\ returned' = [returned EXCEPT ![t] = "false"]
            /\ unreported' = TRUE
            /\ UNCHANGED <<active_downloads, workers, attempts>>
       ELSE IF ~d.dir
       THEN /\ returned' = [returned EXCEPT ![t] = "raised"]
            /\ UNCHANGED <<task, active_downloads, workers, attempts, unreported>>
       ELSE LET r == start_next_download(task, tasks', active_downloads, workers,
                                         attempts)
            IN  /\ task' = r.task
                /\ active_downloads' = r.active
                /\ workers' = r.workers
                /\ attempts' = r.attempts
                /\ unreported' = (unreported \/ r.task # task)
                /\ returned' = [returned EXCEPT ![t] = "true"]
    /\ UNCHANGED <<managerVars, lockVars, callVars, n_tasks, n_bytes, omit_length, max_concurrent_downloads,
                   max_retries, failures, stopAborts, stopBytes, cbCount, lastRange>>

\* HttpxDownloadManager.add_download, for the task created next, with d found
\* at its destination; os.makedirs raises when the directory cannot be created
add_download(t, d) ==
    /\ created' = t
    /\ finalFile' = [finalFile EXCEPT ![t] = d.final]
    /\ tmpFile' = [tmpFile EXCEPT ![t] = d.tmp]
    /\ IF exists(finalFile', t)
       THEN /\ task' = [task EXCEPT ![t].status = COMPLETED, ![t].progress = 100]
            /\ tasks' = Append(tasks, t)
            /\ returned' = [returned EXCEPT ![t] = "false"]
            /\ unreported' = TRUE
            /\ UNCHANGED <<active_downloads, workers, attempts>>
       ELSE IF ~d.dir
       THEN /\ returned' = [returned EXCEPT ![t] = "raised"]
            /\ UNCHANGED <<tasks, task, active_downloads, workers, attempts,
                           unreported>>
       ELSE /\ tasks' = Append(tasks, t)
            /\ LET r == start_next_download(task, tasks', active_downloads, workers,
                                            attempts)
               IN  /\ task' = r.task
                   /\ active_downloads' = r.active
                   /\ workers' = r.workers
                   /\ attempts' = r.attempts
                   /\ unreported' = (unreported \/ r.task # task)
                   /\ returned' = [returned EXCEPT ![t] = "true"]
    /\ UNCHANGED <<managerVars, lockVars, callVars, n_tasks, n_bytes, omit_length, max_concurrent_downloads,
                   max_retries, failures, stopAborts, stopBytes, cbCount, lastRange>>

AddDownload ==
    /\ created < n_tasks
    /\ \E d \in DiskStates : add_download(created + 1, d)

pause_download_NoGuard(t) == task' = [task EXCEPT ![t].paused = TRUE]

\* HttpxDownloadManager.pause_download
pause_download(t) ==
    task' = IF task[t].status = DOWNLOADING THEN [task EXCEPT ![t].paused = TRUE]
            ELSE task

\* HttpxDownloadManager.resume_download
resume_download(t) ==
    task' = IF task[t].status = PAUSED THEN [task EXCEPT ![t].paused = FALSE]
            ELSE task

\* stop(task): sets the stopped flag the worker reads
stop_download(t) ==
    /\ task[t].status \notin Terminal
    /\ task' = [task EXCEPT ![t].stopped = TRUE]

Frame ==
    UNCHANGED <<managerVars, lockVars, callVars, n_tasks, n_bytes, omit_length, max_concurrent_downloads, max_retries, tasks, active_downloads,
                created, workers, tmpFile, finalFile, attempts, failures, stopAborts,
                stopBytes, cbCount, lastRange, returned, unreported>>

Pause ==
    /\ MayDisturb
    /\ Cardinality({u \in Submitted : task[u].paused}) < MaxPaused
    /\ \E t \in Submitted : InList(t) /\ pause_download(t) /\ Frame

Resume == \E t \in Submitted : InList(t) /\ resume_download(t) /\ Frame

Stop ==
    /\ MayDisturb
    /\ Cardinality({u \in Submitted : task[u].stopped}) < MaxStops
    /\ \E t \in Submitted : InList(t) /\ ~task[t].stopped /\ stop_download(t) /\ Frame

\* HttpxDownloadManager.get_active_downloads_count
get_active_downloads_count(tk, lst) ==
    Cardinality({i \in 1..Len(lst) : tk[lst[i]].status = DOWNLOADING})

cleanup_completed_Terminal(tk, lst) ==
    SelectSeq(lst, LAMBDA t : tk[t].status \notin Terminal)

\* HttpxDownloadManager.cleanup_completed
cleanup_completed(tk, lst) == SelectSeq(lst, LAMBDA t : tk[t].status # COMPLETED)

CleanupCompleted ==
    /\ tasks' = cleanup_completed(task, tasks)
    /\ tasks' # tasks
    /\ UNCHANGED <<managerVars, lockVars, callVars, n_tasks, n_bytes, omit_length, max_concurrent_downloads, max_retries, active_downloads, task,
                   created, workers, tmpFile, finalFile, attempts, failures,
                   stopAborts, stopBytes, cbCount, lastRange, returned, unreported>>

\* ------------------------------------------------------------------ worker
\* what the server may answer to a GET from offset start_byte (a Range header
\* is sent when start_byte > 0): 404 stands for any status other than 200 and
\* 206; cl tells whether content-length is present
Lengths == IF omit_length THEN {TRUE, FALSE} ELSE {TRUE}

Responses(start_byte) ==
    (IF MayFail THEN {[code |-> 404, body |-> <<>>, cl |-> FALSE]} ELSE {})
    \cup {[code |-> 200, body |-> Resource, cl |-> b] : b \in Lengths}
    \cup IF start_byte > 0 /\ start_byte < n_bytes
         THEN {[code |-> 206, body |-> SubSeq(Resource, start_byte + 1, n_bytes),
                cl |-> b] : b \in Lengths}
         ELSE {}

except_branch_KeepTmp(tk, tf, t, msg) ==
    IF tk[t].retry_count < max_retries
    THEN [task |-> [tk EXCEPT ![t].error_message = msg,
                              ![t].retry_count = @ + 1,
                              ![t].status = QUEUED],
          tmp |-> tf, pc |-> "backoff"]
    ELSE [task |-> [tk EXCEPT ![t].error_message = msg, ![t].status = ERROR],
          tmp |-> tf, pc |-> "release"]

except_branch_OffByOne(tk, tf, t, msg) ==
    IF tk[t].retry_count <= max_retries
    THEN [task |-> [tk EXCEPT ![t].error_message = msg,
                              ![t].retry_count = @ + 1,
                              ![t].status = QUEUED],
          tmp |-> tf, pc |-> "backoff"]
    ELSE [task |-> [tk EXCEPT ![t].error_message = msg, ![t].status = ERROR],
          tmp |-> [tf EXCEPT ![t] = Absent], pc |-> "release"]

except_branch_DropTmp(tk, tf, t, msg) ==
    IF tk[t].retry_count < max_retries
    THEN [task |-> [tk EXCEPT ![t].error_message = msg,
                              ![t].retry_count = @ + 1,
                              ![t].status = QUEUED],
          tmp |-> [tf EXCEPT ![t] = Absent], pc |-> "backoff"]
    ELSE [task |-> [tk EXCEPT ![t].error_message = msg, ![t].status = ERROR],
          tmp |-> [tf EXCEPT ![t] = Absent], pc |-> "release"]

\* _download_file, "except Exception": the task fields and the .tmp files
\* after the handler, and where the worker goes next
except_branch(tk, tf, t, msg) ==
    IF tk[t].retry_count < max_retries
    THEN [task |-> [tk EXCEPT ![t].error_message = msg,
                              ![t].retry_count = @ + 1,
                              ![t].status = QUEUED],
          tmp |-> tf, pc |-> "backoff"]
    ELSE [task |-> [tk EXCEPT ![t].error_message = msg, ![t].status = ERROR],
          tmp |-> [tf EXCEPT ![t] = Absent], pc |-> "release"]

\* an exception raised in the try block of worker w, with the task fields tk
\* and .tmp files tf reached before it; the handler calls update_callback
\* after it re-queued the task, and not after it set ERROR
Raise(w, tk, tf, msg, byStop) ==
    LET t == w[1]
        r == except_branch(tk, tf, t, msg)
    IN  /\ task' = r.task
        /\ tmpFile' = r.tmp
        /\ workers' = [workers EXCEPT ![w] = [pc |-> r.pc, body |-> <<>>]]
        /\ failures' = [failures EXCEPT ![t] = @ + 1]
        /\ stopAborts' = IF byStop THEN [stopAborts EXCEPT ![t] = @ + 1] ELSE stopAborts
        /\ stopBytes' = IF byStop THEN [stopBytes EXCEPT ![t] = tk[t].downloaded_size]
                        ELSE stopBytes
        /\ unreported' = (r.pc # "backoff")

TotalSize_ContentLength(old, start_byte, r) ==
    IF r.cl THEN Len(r.body)
    ELSE IF r.code = 200 THEN 0 ELSE old

\* total_size after the response headers are read
TotalSize(old, start_byte, r) ==
    IF r.cl THEN start_byte + Len(r.body)
    ELSE IF r.code = 200 THEN 0 ELSE old

\* progress after a chunk is written
Progress(tk) ==
    IF tk.total_size > 0 THEN (tk.downloaded_size * 100) \div tk.total_size
    ELSE tk.progress

write_chunk_Twice(tk, tf, t, chunk) ==
    LET t1 == [tk[t] EXCEPT !.downloaded_size = @ + 1]
    IN  [task |-> [tk EXCEPT ![t] = [t1 EXCEPT !.progress = Progress(t1)]],
         tmp |-> [tf EXCEPT ![t] = Append(Append(@, chunk), chunk)]]

\* f.write(chunk) and the counters after it
write_chunk(tk, tf, t, chunk) ==
    LET t1 == [tk[t] EXCEPT !.downloaded_size = @ + 1]
    IN  [task |-> [tk EXCEPT ![t] = [t1 EXCEPT !.progress = Progress(t1)]],
         tmp |-> [tf EXCEPT ![t] = Append(@, chunk)]]

\* _download_file from its first line to the open of the .tmp file
Begin(w) ==
    /\ workers[w].pc = "begin"
    /\ LET t == w[1]
           partial == tmpFile[t] # Absent
           start_byte == IF partial THEN Len(tmpFile[t]) ELSE 0
           tk1 == IF partial THEN [task EXCEPT ![t].downloaded_size = start_byte]
                  ELSE task
       IN  /\ lastRange' = [lastRange EXCEPT ![t] = start_byte]
           /\ \E r \in Responses(start_byte) :
                IF r.code \notin {200, 206}
                THEN Raise(w, tk1, tmpFile, "HTTP", FALSE)
                ELSE /\ task' = [tk1 EXCEPT ![t].total_size =
                                              TotalSize(@, start_byte, r)]
                     /\ tmpFile' = [tmpFile EXCEPT ![t] =
                                              IF start_byte > 0 THEN @ ELSE <<>>]
                     /\ workers' = [workers EXCEPT ![w] =
                                              [pc |-> "stream", body |-> r.body]]
                     /\ UNCHANGED <<failures, stopAborts, stopBytes, unreported>>
    /\ UNCHANGED <<managerVars, lockVars, callVars, n_tasks, n_bytes, omit_length, max_concurrent_downloads, max_retries, tasks, active_downloads,
                   created, finalFile, attempts, cbCount, returned>>

\* one iteration of "for chunk in response.iter_bytes" up to the pause wait;
\* after a write update_callback is called if 0.5 s have passed since the
\* last call of this worker
Chunk(w) ==
    /\ workers[w].pc = "stream"
    /\ workers[w].body # <<>>
    /\ LET t == w[1] IN
       IF task[t].stopped
       THEN Raise(w, task, tmpFile, "Download stopped by user", TRUE)
       ELSE IF task[t].paused
       THEN /\ task' = [task EXCEPT ![t].status = PAUSED]
            /\ workers' = [workers EXCEPT ![w].pc = "pausewait"]
            /\ unreported' = TRUE
            /\ UNCHANGED <<tmpFile, failures, stopAborts, stopBytes>>
       ELSE LET r == write_chunk(task, tmpFile, t, Head(workers[w].body))
            IN  /\ task' = r.task
                /\ tmpFile' = r.tmp
                /\ workers' = [workers EXCEPT ![w].body = Tail(@)]
                /\ \E due \in BOOLEAN : unreported' = (unreported /\ ~due)
                /\ UNCHANGED <<failures, stopAborts, stopBytes>>
    /\ UNCHANGED <<managerVars, lockVars, callVars, n_tasks, n_bytes, omit_length, max_concurrent_downloads, max_retries, tasks, active_downloads,
                   created, finalFile, attempts, cbCount, lastRange, returned>>

\* the stream breaks before its end: iter_bytes raises
StreamError(w) ==
    /\ workers[w].pc = "stream"
    /\ workers[w].body # <<>>
    /\ MayFail
    /\ Raise(w, task, tmpFile, "network", FALSE)
    /\ UNCHANGED <<managerVars, lockVars, callVars, n_tasks, n_bytes, omit_length, max_concurrent_downloads, max_retries, tasks, active_downloads,
                   created, finalFile, attempts, cbCount, lastRange, returned>>

PauseWait_DropsChunk(w) ==
    /\ workers[w].pc = "pausewait"
    /\ LET t == w[1] IN
       /\ ~task[t].paused \/ task[t].stopped
       /\ IF task[t].stopped
          THEN Raise(w, task, tmpFile, "Download stopped", TRUE)
          ELSE /\ task' = [task EXCEPT ![t].status = DOWNLOADING]
               /\ workers' = [workers EXCEPT ![w] =
                                 [pc |-> "stream", body |-> Tail(workers[w].body)]]
               /\ unreported' = TRUE
               /\ UNCHANGED <<tmpFile, failures, stopAborts, stopBytes>>
    /\ UNCHANGED <<managerVars, lockVars, callVars, n_tasks, n_bytes, omit_length, max_concurrent_downloads, max_retries, tasks, active_downloads,
                   created, finalFile, attempts, cbCount, lastRange, returned>>

\* the worker leaves "while task.paused and not task.stopped"
PauseWait(w) ==
    /\ workers[w].pc = "pausewait"
    /\ LET t == w[1] IN
       /\ ~task[t].paused \/ task[t].stopped
       /\ IF task[t].stopped
          THEN Raise(w, task, tmpFile, "Download stopped", TRUE)
          ELSE LET r == write_chunk([task EXCEPT ![t].status = DOWNLOADING],
                                    tmpFile, t, Head(workers[w].body))
               IN  /\ task' = r.task
                   /\ tmpFile' = r.tmp
                   /\ workers' = [workers EXCEPT ![w] =
                                     [pc |-> "stream", body |-> Tail(workers[w].body)]]
                   /\ \E due \in BOOLEAN : unreported' = ~due
                   /\ UNCHANGED <<failures, stopAborts, stopBytes>>
    /\ UNCHANGED <<managerVars, lockVars, callVars, n_tasks, n_bytes, omit_length, max_concurrent_downloads, max_retries, tasks, active_downloads,
                   created, finalFile, attempts, cbCount, lastRange, returned>>

Finish_NoRename(w) ==
    /\ workers[w].pc = "stream"
    /\ workers[w].body = <<>>
    /\ task' = [task EXCEPT ![w[1]].status = COMPLETED, ![w[1]].progress = 100]
    /\ workers' = [workers EXCEPT ![w].pc = "callback"]
    /\ unreported' = TRUE
    /\ UNCHANGED <<managerVars, lockVars, callVars, n_tasks, n_bytes, omit_length, max_concurrent_downloads, max_retries, tasks, active_downloads,
                   created, attempts, failures, stopAborts, stopBytes, cbCount,
                   lastRange, returned, tmpFile, finalFile>>

\* the stream ended: remove full_path, rename, COMPLETED and progress 100
Finish(w) ==
    /\ workers[w].pc = "stream"
    /\ workers[w].body = <<>>
    /\ LET t == w[1] IN
       /\ finalFile' = [finalFile EXCEPT ![t] = tmpFile[t]]
       /\ tmpFile' = [tmpFile EXCEPT ![t] = Absent]
       /\ task' = [task EXCEPT ![t].status = COMPLETED, ![t].progress = 100]
    /\ workers' = [workers EXCEPT ![w].pc = "callback"]
    /\ unreported' = TRUE
    /\ UNCHANGED <<managerVars, lockVars, callVars, n_tasks, n_bytes, omit_length, max_concurrent_downloads, max_retries, tasks, active_downloads,
                   created, attempts, failures, stopAborts, stopBytes, cbCount,
                   lastRange, returned>>

\* completion_callback(task) returns
Callback(w) ==
    /\ workers[w].pc = "callback"
    /\ cbCount' = [cbCount EXCEPT ![w[1]] = @ + 1]
    /\ workers' = [workers EXCEPT ![w].pc = "release"]
    /\ UNCHANGED <<managerVars, lockVars, callVars, n_tasks, n_bytes, omit_length, max_concurrent_downloads, max_retries, tasks, active_downloads,
                   task, created, tmpFile, finalFile, attempts, failures, stopAborts,
                   stopBytes, lastRange, returned, unreported>>

\* completion_callback(task) raises: the call is still inside the try block,
\* so the exception is handled like a failed transfer
CallbackRaises(w) ==
    /\ workers[w].pc = "callback"
    /\ MayFail
    /\ cbCount' = [cbCount EXCEPT ![w[1]] = @ + 1]
    /\ Raise(w, task, tmpFile, "callback", FALSE)
    /\ UNCHANGED <<managerVars, lockVars, callVars, n_tasks, n_bytes, omit_length, max_concurrent_downloads, max_retries, tasks, active_downloads,
                   created, finalFile, attempts, lastRange, returned>>

\* "finally": after the back-off sleep, if any, the slot is released under the lock
Release(w) ==
    /\ workers[w].pc \in {"backoff", "release"}
    /\ w \notin old_workers
    /\ active_downloads' = active_downloads - 1
    /\ workers' = [workers EXCEPT ![w].pc = "admit"]
    /\ UNCHANGED <<managerVars, lockVars, callVars, n_tasks, n_bytes, omit_length, max_concurrent_downloads, max_retries, tasks, task, created,
                   tmpFile, finalFile, attempts, failures, stopAborts, stopBytes,
                   cbCount, lastRange, returned, unreported>>

Admit_AdmitFirst(w) ==
    /\ workers[w].pc = "admit"
    /\ w \notin old_workers
    /\ LET rest == [v \in DOMAIN workers \ {w} |-> workers[v]]
           r == start_next_download(task, tasks, active_downloads, rest, attempts)
       IN  /\ task' = r.task
           /\ active_downloads' = r.active
           /\ workers' = r.workers
           /\ attempts' = r.attempts
           /\ unreported' = FALSE
    /\ UNCHANGED <<managerVars, lockVars, callVars, n_tasks, n_bytes, omit_length, max_concurrent_downloads, max_retries, tasks, created, tmpFile,
                   finalFile, failures, stopAborts, stopBytes, cbCount, lastRange,
                   returned>>

Admit_NoAdmission(w) ==
    /\ workers[w].pc = "admit"
    /\ w \notin old_workers
    /\ workers' = [v \in DOMAIN workers \ {w} |-> workers[v]]
    /\ unreported' = FALSE
    /\ UNCHANGED <<managerVars, lockVars, callVars, n_tasks, n_bytes, omit_length, max_concurrent_downloads, max_retries, tasks, created, tmpFile,
                   finalFile, failures, stopAborts, stopBytes, cbCount, lastRange,
                   returned, task, active_downloads, attempts>>

\* "finally": update_callback, then _start_next_download; the thread ends
Admit(w) ==
    /\ workers[w].pc = "admit"
    /\ w \notin old_workers
    /\ LET rest == [v \in DOMAIN workers \ {w} |-> workers[v]]
           r == start_next_download(task, tasks, active_downloads, rest, attempts)
       IN  /\ task' = r.task
           /\ active_downloads' = r.active
           /\ workers' = r.workers
           /\ attempts' = r.attempts
           /\ unreported' = (r.task # task)
    /\ UNCHANGED <<managerVars, lockVars, callVars, n_tasks, n_bytes, omit_length, max_concurrent_downloads, max_retries, tasks, created, tmpFile,
                   finalFile, failures, stopAborts, stopBytes, cbCount, lastRange,
                   returned>>

\* ----------------------------------------------------------- specification
Min(a, b) == IF a <= b THEN a ELSE b

Init ==
    /\ n_bytes \in 1..ResourceSize
    /\ n_tasks = Min(NTasks, MaxWork \div n_bytes)
    /\ n_tasks >= 1
    /\ omit_length \in (IF n_tasks = 1 THEN {TRUE} ELSE {FALSE})
    /\ max_concurrent_downloads \in 1..MaxCeiling
    /\ max_retries \in 0..MaxRetriesBound
    /\ tasks = <<>>
    /\ active_downloads = 0
    /\ task = [t \in TaskIds |-> NewTask]
    /\ created = 0
    /\ workers = <<>>
    /\ tmpFile = [t \in TaskIds |-> Absent]
    /\ finalFile = [t \in TaskIds |-> Absent]
    /\ attempts = [t \in TaskIds |-> 0]
    /\ failures = [t \in TaskIds |-> 0]
    /\ stopAborts = [t \in TaskIds |-> 0]
    /\ stopBytes = [t \in TaskIds |-> 0]
    /\ cbCount = [t \in TaskIds |-> 0]
    /\ lastRange = [t \in TaskIds |-> -1]
    /\ returned = [t \in TaskIds |-> "none"]
    /\ unreported = FALSE
    /\ old_tasks = <<>>
    /\ old_active_downloads = 0
    /\ old_max_concurrent_downloads = 0
    /\ old_workers = {}
    /\ download_lock = Unlocked
    /\ gui = "idle"
    /\ calls = [t \in TaskIds |-> "none"]
    /\ rebuilt = NotRebuilding

Worker ==
    \E w \in DOMAIN workers :
        \/ Begin(w)
        \/ Chunk(w)
        \/ StreamError(w)
        \/ PauseWait(w)
        \/ Finish(w)
        \/ Callback(w)
        \/ Release(w)
        \/ Admit(w)

Next ==
    \/ AddDownload
    \/ Pause
    \/ Resume
    \/ Stop
    \/ CleanupCompleted
    \/ Worker

Spec == Init /\ [][Next]_vars

\* the manager constructed with a completion callback that may raise
WorkerRaising == \E w \in DOMAIN workers : CallbackRaises(w)

NextRaising ==
    \/ Next
    \/ WorkerRaising

SpecRaising == Init /\ [][NextRaising]_vars

\* the program under fair scheduling: a worker thread that can take a step
\* eventually takes one (every request, chunk read, sleep and callback ends),
\* and a task that waits in status PAUSED is eventually resumed by the user.
\* Liveness is checked with at most MaxSubmissions submissions
AddDownloadBounded == created < MaxSubmissions /\ AddDownload

NextFair == AddDownloadBounded \/ Pause \/ Resume \/ Stop \/ CleanupCompleted \/ Worker

SpecFair == Init /\ [][NextFair]_vars /\ WF_vars(Worker) /\ WF_vars(Resume)

\* ------------------------------------------- the caller's calls recorded
\* the same program with the pause and resume calls of the caller recorded,
\* also when they change nothing; the worker threads are scheduled fairly and
\* nothing is assumed about the caller
FrameCalls ==
    UNCHANGED <<managerVars, lockVars, n_tasks, n_bytes, omit_length, max_concurrent_downloads,
                max_retries, tasks, active_downloads, created, workers, tmpFile, finalFile,
                attempts, failures, stopAborts, stopBytes, cbCount, lastRange, returned,
                unreported>>

\* MainWindow.pause_selected_download on task t
PauseCall ==
    /\ MayDisturb
    /\ Cardinality({u \in Submitted : task[u].paused}) < MaxPaused
    /\ \E t \in Submitted :
          /\ InList(t)
          /\ pause_download(t)
          /\ calls' = [calls EXCEPT ![t] = IF task'[t].paused THEN "paused" ELSE @]
          /\ UNCHANGED rebuilt
          /\ FrameCalls

\* MainWindow.resume_selected_download on task t
ResumeCall ==
    \E t \in Submitted :
       /\ InList(t)
       /\ resume_download(t)
       /\ calls' = [calls EXCEPT ![t] = IF @ = "paused" THEN "resumed" ELSE @]
       /\ UNCHANGED rebuilt
       /\ FrameCalls

NextCalls ==
    \/ AddDownloadBounded
    \/ PauseCall
    \/ ResumeCall
    \/ Stop
    \/ CleanupCompleted
    \/ Worker

SpecCalls == Init /\ [][NextCalls]_vars /\ WF_vars(Worker)

\* ------------------------------------- cleanup_completed in two steps
\* the manager called from more than one thread: cleanup_completed first
\* builds the list of the tasks that are not COMPLETED and then assigns it to
\* self.tasks, without a lock; add_download and the workers may run between
\* the two steps

\* cleanup_completed: the list comprehension has been evaluated
CleanupBuild ==
    /\ rebuilt = NotRebuilding
    /\ rebuilt' = cleanup_completed(task, tasks)
    /\ UNCHANGED <<managerVars, lockVars, calls, n_tasks, n_bytes, omit_length,
                   max_concurrent_downloads, max_retries, tasks, active_downloads, task,
                   created, workers, tmpFile, finalFile, attempts, failures, stopAborts,
                   stopBytes, cbCount, lastRange, returned, unreported>>

\* cleanup_completed: self.tasks = the list built
CleanupAssign ==
    /\ rebuilt # NotRebuilding
    /\ tasks' = rebuilt
    /\ rebuilt' = NotRebuilding
    /\ UNCHANGED <<managerVars, lockVars, calls, n_tasks, n_bytes, omit_length,
                   max_concurrent_downloads, max_retries, active_downloads, task,
                   created, workers, tmpFile, finalFile, attempts, failures, stopAborts,
                   stopBytes, cbCount, lastRange, returned, unreported>>

NextCleanup ==
    \/ AddDownloadBounded
    \/ Pause
    \/ Resume
    \/ Stop
    \/ CleanupBuild
    \/ CleanupAssign
    \/ Worker

SpecCleanup == Init /\ [][NextCleanup]_vars

\* ------------------------------------------------------ the settings flow
\* MainWindow.show_settings, the loop "for task in existing_tasks:
\* self.download_manager.add_download(task)" on the new manager with ceiling c:
\* st holds the task fields, the new list, the new active count, the live
\* workers and the launch counts
RECURSIVE ReAdd(_, _, _)
ReAdd(c, rest, st) ==
    IF rest = <<>> THEN st
    ELSE LET t == Head(rest)
             lst == Append(st.tasks, t)
             r == start_next_download_of(c, st.task, lst, st.active, st.workers,
                                         st.attempts)
             st1 == IF exists(finalFile, t)
                    THEN [st EXCEPT !.task = [@ EXCEPT ![t].status = COMPLETED,
                                                       ![t].progress = 100],
                                    !.tasks = lst]
                    ELSE [task |-> r.task, tasks |-> lst, active |-> r.active,
                          workers |-> r.workers, attempts |-> r.attempts]
         IN  ReAdd(c, Tail(rest), st1)

\* MainWindow.show_settings with the dialog accepted: a new manager with
\* ceiling c, an empty list and active_downloads 0 replaces the manager, and
\* the existing tasks are re-added to it; the running workers keep the old
\* manager. One replacement per run
ShowSettings ==
    /\ old_max_concurrent_downloads = 0
    /\ \E c \in 1..MaxCeiling :
         LET st == ReAdd(c, tasks, [task |-> task, tasks |-> <<>>, active |-> 0,
                                    workers |-> workers, attempts |-> attempts])
         IN  /\ old_tasks' = tasks
             /\ old_active_downloads' = active_downloads
             /\ old_max_concurrent_downloads' = max_concurrent_downloads
             /\ old_workers' = DOMAIN workers
             /\ max_concurrent_downloads' = c
             /\ tasks' = st.tasks
             /\ task' = st.task
             /\ active_downloads' = st.active
             /\ workers' = st.workers
             /\ attempts' = st.attempts
             /\ unreported' = (unreported \/ st.task # task)
    /\ UNCHANGED <<lockVars, callVars, n_tasks, n_bytes, omit_length, max_retries, created, tmpFile,
                   finalFile, failures, stopAborts, stopBytes, cbCount, lastRange,
                   returned>>

\* "finally" of a worker of the replaced manager: self is the old manager
ReleaseOld(w) ==
    /\ workers[w].pc \in {"backoff", "release"}
    /\ w \in old_workers
    /\ old_active_downloads' = old_active_downloads - 1
    /\ workers' = [workers EXCEPT ![w].pc = "admit"]
    /\ UNCHANGED <<old_tasks, old_max_concurrent_downloads, old_workers, lockVars,
                   callVars, n_tasks, n_bytes, omit_length, max_concurrent_downloads, max_retries,
                   tasks, active_downloads, task, created, tmpFile, finalFile, attempts,
                   failures, stopAborts, stopBytes, cbCount, lastRange, returned,
                   unreported>>

\* "finally" of a worker of the replaced manager: update_callback, then
\* _start_next_download on the old list under the old ceiling; a worker it
\* starts runs on the old manager too
AdmitOld(w) ==
    /\ workers[w].pc = "admit"
    /\ w \in old_workers
    /\ LET rest == [v \in DOMAIN workers \ {w} |-> workers[v]]
           r == start_next_download_of(old_max_concurrent_downloads, task, old_tasks,
                                       old_active_downloads, rest, attempts)
       IN  /\ task' = r.task
           /\ old_active_downloads' = r.active
           /\ workers' = r.workers
           /\ attempts' = r.attempts
           /\ old_workers' = (old_workers \ {w}) \cup (DOMAIN r.workers \ DOMAIN rest)
           /\ unreported' = (r.task # task)
    /\ UNCHANGED <<old_tasks, old_max_concurrent_downloads, lockVars,
                   callVars, n_tasks, n_bytes, omit_length, max_concurrent_downloads, max_retries,
                   tasks, active_downloads, created, tmpFile, finalFile, failures,
                   stopAborts, stopBytes, cbCount, lastRange, returned>>

WorkerOld == \E w \in DOMAIN workers : ReleaseOld(w) \/ AdmitOld(w)

NextSettings ==
    \/ AddDownloadBounded
    \/ Pause
    \/ Resume
    \/ Stop
    \/ CleanupCompleted
    \/ Worker
    \/ ShowSettings
    \/ WorkerOld

SpecSettings == Init /\ [][NextSettings]_vars

\* ---------------------------------------------------- the lock made visible
\* the same program with every "with self.download_lock" block entered in one
\* step and left in another, so that a thread can be seen holding the lock;
\* a worker about to call update_callback in "finally" is at pc "admit"

\* the steps of a worker inside its try block
Transfer(w) ==
    Begin(w) \/ Chunk(w) \/ StreamError(w) \/ PauseWait(w) \/ Finish(w) \/ Callback(w)

\* "finally", "with self.download_lock": the lock is granted (after the
\* back-off sleep of a re-queued attempt)
AcquireForRelease(w) ==
    /\ workers[w].pc \in {"backoff", "release"}
    /\ download_lock = Unlocked
    /\ download_lock' = w
    /\ workers' = [workers EXCEPT ![w].pc = "releasing"]
    /\ UNCHANGED <<managerVars, gui, callVars, n_tasks, n_bytes, omit_length, max_concurrent_downloads, max_retries,
                   tasks, active_downloads, task, created, tmpFile, finalFile, attempts,
                   failures, stopAborts, stopBytes, cbCount, lastRange, returned, unreported>>

ReleaseSlot_KeepsLock(w) ==
    /\ workers[w].pc = "releasing"
    /\ active_downloads' = active_downloads - 1
    /\ workers' = [workers EXCEPT ![w].pc = "admit"]
    /\ UNCHANGED <<managerVars, lockVars, callVars, n_tasks, n_bytes, omit_length, max_concurrent_downloads, max_retries,
                   tasks, task, created, tmpFile, finalFile, attempts,
                   failures, stopAborts, stopBytes, cbCount, lastRange, returned, unreported>>

\* "finally": active_downloads -= 1, and the with block is left
ReleaseSlot(w) ==
    /\ workers[w].pc = "releasing"
    /\ active_downloads' = active_downloads - 1
    /\ download_lock' = Unlocked
    /\ workers' = [workers EXCEPT ![w].pc = "admit"]
    /\ UNCHANGED <<managerVars, gui, callVars, n_tasks, n_bytes, omit_length, max_concurrent_downloads, max_retries,
                   tasks, task, created, tmpFile, finalFile, attempts,
                   failures, stopAborts, stopBytes, cbCount, lastRange, returned, unreported>>

\* "finally": update_callback has returned and _start_next_download is
\* granted the lock
AcquireForAdmit(w) ==
    /\ workers[w].pc = "admit"
    /\ download_lock = Unlocked
    /\ download_lock' = w
    /\ workers' = [workers EXCEPT ![w].pc = "admitting"]
    /\ unreported' = FALSE
    /\ UNCHANGED <<managerVars, gui, callVars, n_tasks, n_bytes, omit_length, max_concurrent_downloads, max_retries,
                   tasks, active_downloads, task, created, tmpFile, finalFile, attempts,
                   failures, stopAborts, stopBytes, cbCount, lastRange, returned>>

\* _start_next_download of an ending worker: the locked section, after which
\* the thread ends
StartNext(w) ==
    /\ workers[w].pc = "admitting"
    /\ LET rest == [v \in DOMAIN workers \ {w} |-> workers[v]]
           r == start_next_download(task, tasks, active_downloads, rest, attempts)
       IN  /\ task' = r.task
           /\ active_downloads' = r.active
           /\ workers' = r.workers
           /\ attempts' = r.attempts
           /\ unreported' = (unreported \/ r.task # task)
    /\ download_lock' = Unlocked
    /\ UNCHANGED <<managerVars, gui, callVars, n_tasks, n_bytes, omit_length, max_concurrent_downloads, max_retries,
                   tasks, created, tmpFile, finalFile, failures, stopAborts, stopBytes,
                   cbCount, lastRange, returned>>

\* add_download up to self.tasks.append(task): the GUI thread goes on to
\* _start_next_download unless the file exists or makedirs raised
add_download_append(t, d) ==
    /\ created' = t
    /\ finalFile' = [finalFile EXCEPT ![t] = d.final]
    /\ tmpFile' = [tmpFile EXCEPT ![t] = d.tmp]
    /\ IF exists(finalFile', t)
       THEN /\ task' = [task EXCEPT ![t].status = COMPLETED, ![t].progress = 100]
            /\ tasks' = Append(tasks, t)
            /\ returned' = [returned EXCEPT ![t] = "false"]
            /\ unreported' = TRUE
            /\ gui' = "idle"
       ELSE IF ~d.dir
       THEN /\ returned' = [returned EXCEPT ![t] = "raised"]
            /\ UNCHANGED <<tasks, task, unreported, gui>>
       ELSE /\ tasks' = Append(tasks, t)
            /\ gui' = "start_next"
            /\ UNCHANGED <<task, returned, unreported>>
    /\ UNCHANGED <<managerVars, download_lock, callVars, n_tasks, n_bytes, omit_length, max_concurrent_downloads,
                   max_retries, active_downloads, workers, attempts, failures, stopAborts,
                   stopBytes, cbCount, lastRange>>

AddDownloadAppend ==
    /\ gui = "idle"
    /\ created < MaxSubmissions
    /\ created < n_tasks
    /\ \E d \in DiskStates : add_download_append(created + 1, d)

\* add_download, _start_next_download: the GUI thread is granted the lock
GuiAcquire ==
    /\ gui = "start_next"
    /\ download_lock = Unlocked
    /\ download_lock' = GuiThread
    /\ gui' = "locked"
    /\ UNCHANGED <<managerVars, callVars, n_tasks, n_bytes, omit_length, max_concurrent_downloads, max_retries,
                   tasks, active_downloads, task, created, workers, tmpFile, finalFile,
                   attempts, failures, stopAborts, stopBytes, cbCount, lastRange,
                   returned, unreported>>

\* add_download, _start_next_download: the locked section, then return True
GuiStartNext ==
    /\ gui = "locked"
    /\ LET r == start_next_download(task, tasks, active_downloads, workers, attempts)
       IN  /\ task' = r.task
           /\ active_downloads' = r.active
           /\ workers' = r.workers
           /\ attempts' = r.attempts
           /\ unreported' = (unreported \/ r.task # task)
    /\ returned' = [returned EXCEPT ![created] = "true"]
    /\ download_lock' = Unlocked
    /\ gui' = "idle"
    /\ UNCHANGED <<managerVars, callVars, n_tasks, n_bytes, omit_length, max_concurrent_downloads, max_retries,
                   tasks, created, tmpFile, finalFile, failures, stopAborts, stopBytes,
                   cbCount, lastRange>>

\* the other handlers of the GUI thread run when it is not inside add_download
GuiHandler == gui = "idle" /\ (Pause \/ Resume \/ Stop \/ CleanupCompleted)

WorkerLock ==
    \E w \in DOMAIN workers :
       \/ Transfer(w)
       \/ AcquireForRelease(w)
       \/ ReleaseSlot(w)
       \/ AcquireForAdmit(w)
       \/ StartNext(w)

NextLock == AddDownloadAppend \/ GuiAcquire \/ GuiStartNext \/ GuiHandler \/ WorkerLock

SpecLock == Init /\ [][NextLock]_vars

\* the same with fair scheduling of the threads: a worker that can take a
\* step eventually does, and so does the GUI thread inside add_download
SpecLockFair ==
    SpecLock /\ WF_vars(WorkerLock) /\ WF_vars(GuiAcquire) /\ WF_vars(GuiStartNext)

\* ------------------------------------------------------------------ claims
Status(t) == task[t].status
Started(t) == attempts[t] > 0
NumWithStatus(st) == Cardinality({t \in Submitted : Status(t) = st})
\* the task submitted first among the QUEUED ones (ids follow submission order)
IsEarliestQueued(t) ==
    /\ t \in Submitted
    /\ Status(t) = QUEUED
    /\ \A u \in Submitted : Status(u) = QUEUED => t <= u
\* the thread launched last for task t runs to its end in this step
WorkerEnds(t) ==
    /\ <<t, attempts[t]>> \in DOMAIN workers
    /\ <<t, attempts[t]>> \notin DOMAIN workers'

\* C1: the number of tasks whose status is DOWNLOADING never exceeds
\* max_concurrent_downloads, in any reachable state
C1_ConcurrencyBound == NumWithStatus(DOWNLOADING) <= max_concurrent_downloads

\* more tasks than slots: both slots transferring, one of them a retried task,
\* while a third task waits
C1_Witness ==
    /\ max_concurrent_downloads = 2
    /\ created = 3
    /\ NumWithStatus(DOWNLOADING) = 2
    /\ \E t \in Submitted : Status(t) = DOWNLOADING /\ task[t].retry_count > 0
    /\ \E t \in Submitted : Status(t) = QUEUED

\* C2, as stated: with ceiling 1, T_i starts always before T_{i+1}, and no
\* later than when T_{i-1} reaches a terminal or re-queued state: when a thread
\* of T_{i-1} has brought it there and ends, the waiting T_i is started
C2_Original ==
    [][max_concurrent_downloads = 1 =>
         \A i \in Submitted : \A j \in Submitted :
            (j = i + 1 /\ returned[i] = "true" /\ returned[j] = "true") =>
               /\ Started(j) => Started(i)
               /\ (WorkerEnds(i) /\ ~Started(j)) => Started(j)']_vars

\* C2, amended: with ceiling 1, T_j is first admitted only when every task
\* submitted before it is terminal (a re-queued task is re-admitted ahead of
\* T_j), which is at the latest when the thread that made T_{j-1} terminal
\* ends; so T_i always starts before T_{i+1}
C2_FifoAdmission ==
    /\ [](max_concurrent_downloads = 1 =>
            \A i \in Submitted : \A j \in Submitted :
               (i < j /\ Started(j)) =>
                  /\ Status(i) \in Terminal
                  /\ returned[i] = "true" => Started(i))
    /\ [][max_concurrent_downloads = 1 =>
            \A i \in Submitted : \A j \in Submitted :
               (j = i + 1 /\ returned[j] = "true" /\ ~Started(j)
                  /\ WorkerEnds(i) /\ Status(i) \in Terminal) => Started(j)']_vars

\* ceiling 1: the first task failed and was retried, the second was started
\* after it, the third still waits
C2_Witness ==
    /\ max_concurrent_downloads = 1
    /\ created = 3
    /\ \A t \in Submitted : returned[t] = "true"
    /\ failures[1] > 0
    /\ attempts[1] = 2
    /\ Status(2) = DOWNLOADING
    /\ Status(3) = QUEUED

\* C3: add_download of a task whose destination file exists returns false,
\* sets COMPLETED and progress 100, appends the task, launches no worker, makes
\* no request, and leaves the active count and all other tasks unchanged
C3_ExistingFile ==
    [][\A t \in TaskIds :
         (created = t - 1 /\ created' = t /\ finalFile'[t] # Absent) =>
            /\ returned'[t] = "false"
            /\ task'[t].status = COMPLETED
            /\ task'[t].progress = 100
            /\ tasks' = Append(tasks, t)
            /\ workers' = workers
            /\ attempts' = attempts
            /\ lastRange' = lastRange
            /\ active_downloads' = active_downloads
            /\ \A u \in TaskIds \ {t} : task'[u] = task[u]]_vars

\* a task was completed by add_download alone while another task waits and a
\* slot is free
C3_Witness ==
    \E t \in Submitted :
       /\ returned[t] = "false"
       /\ Status(t) = COMPLETED
       /\ task[t].progress = 100
       /\ ~Started(t)
       /\ lastRange[t] = -1
       /\ \E u \in Submitted : u < t /\ Status(u) = QUEUED
       /\ active_downloads < max_concurrent_downloads

\* C4: after N fresh tasks are submitted and before any worker leaves its
\* transfer, the first min(N, C) tasks are DOWNLOADING and the others QUEUED,
\* and every add_download returned true; and whenever a task is admitted, also
\* after a running task completed, it is the earliest-submitted QUEUED task
NoWorkerLeft ==
    /\ Submitted = 1..created
    /\ \A t \in Submitted : finalFile[t] = Absent /\ failures[t] = 0
    /\ \A w \in DOMAIN workers : workers[w].pc \in {"begin", "stream"}

C4_Admission ==
    /\ [](NoWorkerLeft =>
            \A t \in Submitted :
               /\ returned[t] = "true"
               /\ Status(t) = IF t <= Min(created, max_concurrent_downloads)
                              THEN DOWNLOADING ELSE QUEUED)
    /\ [][\A t \in Submitted :
            (Status(t) = QUEUED /\ task'[t].status = DOWNLOADING) =>
               IsEarliestQueued(t)]_vars
    /\ [][\A t \in Submitted : \A u \in Submitted :
            (WorkerEnds(t) /\ Status(t) = COMPLETED /\ IsEarliestQueued(u)
               /\ active_downloads < max_concurrent_downloads) =>
               task'[u].status = DOWNLOADING]_vars

\* three tasks and two slots; the first completed and the third was admitted
C4_Witness ==
    /\ max_concurrent_downloads = 2
    /\ created = 3
    /\ \A t \in Submitted : returned[t] = "true"
    /\ Status(1) = COMPLETED
    /\ Status(2) = DOWNLOADING
    /\ Status(3) = DOWNLOADING
    /\ attempts[3] = 1

C6_RetryThenSuccess ==
    \A t \in Submitted :
       (Status(t) = COMPLETED /\ failures[t] >= 1 /\ stopAborts[t] = 0
           /\ \A w \in DOMAIN workers : w[1] = t => workers[w].pc # "callback") =>
          /\ task[t].retry_count = failures[t]
          /\ finalFile[t] = Resource
          /\ cbCount[t] = 1

\* C7, as stated, read on the tasks that have been retried: retry_count <=
\* max_retries, and a task whose retry_count equals max_retries is ERROR
C7_Original ==
    \A t \in Submitted :
       /\ task[t].retry_count <= max_retries
       /\ (task[t].retry_count = max_retries /\ task[t].retry_count > 0) =>
             Status(t) = ERROR

\* C7, amended: retry_count <= max_retries always; a task is ERROR only with
\* retry_count = max_retries; an attempt that fails with retry_count =
\* max_retries makes the task ERROR without counting further; an ERROR task is
\* never re-queued or admitted again
C7_RetryBudget ==
    /\ [](\A t \in Submitted :
            /\ task[t].retry_count <= max_retries
            /\ Status(t) = ERROR => task[t].retry_count = max_retries)
    /\ [][\A t \in Submitted :
            (failures'[t] > failures[t] /\ task[t].retry_count = max_retries) =>
               /\ task'[t].status = ERROR
               /\ task'[t].retry_count = task[t].retry_count]_vars
    /\ [][\A t \in Submitted :
            Status(t) = ERROR =>
               /\ task'[t].status = ERROR
               /\ attempts'[t] = attempts[t]]_vars

\* a task used its whole budget: it was re-queued, ran its last attempt with
\* retry_count = max_retries and is ERROR, while another task goes on
C7_Witness ==
    /\ max_retries >= 1
    /\ \E t \in Submitted :
          /\ Status(t) = ERROR
          /\ task[t].retry_count = max_retries
          /\ \E u \in Submitted : Status(u) = DOWNLOADING

\* C8: a transfer restarted from a .tmp file of k bytes (0 < k < n) ends with
\* a final file of exactly the n bytes of the resource, whichever of 200 and
\* 206 the server answers
C8_ResumeCorrect ==
    \A t \in Submitted :
       (Status(t) = COMPLETED /\ lastRange[t] > 0 /\ lastRange[t] < n_bytes) =>
          finalFile[t] = Resource

\* C9: once a worker has aborted on the stopped flag the task is STOPPED, and
\* the abort has not counted as a retry
C9_StopNotRetried ==
    \A t \in Submitted :
       stopAborts[t] > 0 =>
          /\ Status(t) = STOPPED
          /\ task[t].retry_count = failures[t] - stopAborts[t]

\* C10: after a task is stopped with k > 0 bytes downloaded, its .tmp file is
\* still there and holds k bytes
C10_StopKeepsTmp ==
    \A t \in Submitted :
       (stopAborts[t] > 0 /\ stopBytes[t] > 0) =>
          /\ tmpFile[t] # Absent
          /\ Len(tmpFile[t]) = stopBytes[t]

\* C11: pause_download sets paused only when the status is DOWNLOADING and
\* resume_download clears it only when the status is PAUSED; a step that changes
\* a paused flag changes nothing else (not the status, no other task, not the
\* list, not the active count); in every other status the call changes nothing
C11_PauseResumeFrame ==
    [][\A t \in TaskIds :
         /\ (task'[t].paused /\ ~task[t].paused) => Status(t) = DOWNLOADING
         /\ (~task'[t].paused /\ task[t].paused) => Status(t) = PAUSED
         /\ (task'[t].paused # task[t].paused) =>
               /\ task' = [task EXCEPT ![t].paused = ~task[t].paused]
               /\ tasks' = tasks
               /\ active_downloads' = active_downloads
               /\ workers' = workers
         /\ (pause_download(t) /\ Frame /\ Status(t) # DOWNLOADING) => UNCHANGED vars
         /\ (resume_download(t) /\ Frame /\ Status(t) # PAUSED) => UNCHANGED vars]_vars

\* a task was paused and resumed (its worker has not yet left the wait) while
\* another task of the list is QUEUED, where both calls do nothing
C11_Witness ==
    \E t \in Submitted : \E u \in Submitted :
       /\ Status(t) = PAUSED
       /\ ~task[t].paused
       /\ InList(u)
       /\ Status(u) = QUEUED
       /\ ~task[u].paused

\* the worker thread that is reading the response of its task
Streaming(w) == w \in DOMAIN workers /\ workers[w].pc \in {"stream", "pausewait"}

\* C12: while a task stays PAUSED its downloaded_size and .tmp file do not
\* change, and they change on leaving PAUSED only after paused was cleared (or
\* stopped set); every chunk of the response is written once and in order: a
\* step of a reading worker either writes nothing or appends exactly the next
\* chunk and counts it, so the .tmp file followed by the chunks still to come
\* is always what the attempt found on disk followed by the whole response
C12_PauseByteExact ==
    /\ [](\A w \in DOMAIN workers :
            Streaming(w) =>
               LET t == w[1]
                   k == lastRange[t]
                   whole == tmpFile[t] \o workers[w].body
               IN  /\ tmpFile[t] # Absent
                   /\ k <= Len(tmpFile[t])
                   /\ \/ whole = SubSeq(tmpFile[t], 1, k) \o Resource
                      \/ k > 0 /\ whole = SubSeq(tmpFile[t], 1, k)
                                            \o SubSeq(Resource, k + 1, n_bytes))
    /\ [][\A t \in Submitted :
            /\ (Status(t) = PAUSED /\ task'[t].status = PAUSED) =>
                  /\ task'[t].downloaded_size = task[t].downloaded_size
                  /\ tmpFile'[t] = tmpFile[t]
            /\ (Status(t) = PAUSED /\ task'[t].status # PAUSED) =>
                  (~task[t].paused \/ task[t].stopped)]_vars
    /\ [][\A w \in DOMAIN workers :
            (Streaming(w) /\ w \in DOMAIN workers' /\ workers'[w].pc \in {"stream", "pausewait"}) =>
               LET t == w[1] IN
               \/ /\ workers'[w].body = workers[w].body
                  /\ tmpFile'[t] = tmpFile[t]
                  /\ task'[t].downloaded_size = task[t].downloaded_size
               \/ /\ workers[w].body # <<>>
                  /\ workers'[w].body = Tail(workers[w].body)
                  /\ tmpFile'[t] = Append(tmpFile[t], Head(workers[w].body))
                  /\ task'[t].downloaded_size = task[t].downloaded_size + 1]_vars

\* a transfer was paused after its first byte and has been resumed: the worker
\* still waits, holding the second chunk, with one byte on disk
C12_Witness ==
    \E w \in DOMAIN workers :
       /\ workers[w].pc = "pausewait"
       /\ ~task[w[1]].paused
       /\ ~task[w[1]].stopped
       /\ task[w[1]].downloaded_size = 1
       /\ tmpFile[w[1]] = SubSeq(Resource, 1, 1)
       /\ workers[w].body = SubSeq(Resource, 2, n_bytes)
       /\ n_bytes = 3

\* the completion callback of task t has been called or will never be
CallbackDone(t) == \A w \in DOMAIN workers : w[1] = t => workers[w].pc # "callback"

\* C13: for every task that is COMPLETED, by whatever path, the completion
\* callback was invoked exactly once, and it was invoked for no task that did
\* not reach COMPLETED
C13_CallbackOnce ==
    \A t \in Submitted :
       /\ (Status(t) = COMPLETED /\ CallbackDone(t)) => cbCount[t] = 1
       /\ cbCount[t] > 0 => Status(t) = COMPLETED

\* C14: a status that is COMPLETED, ERROR or STOPPED is never changed by any
\* step, also when the completion callback raises
C14_TerminalFinal ==
    [][\A t \in TaskIds : Status(t) \in Terminal => task'[t].status = Status(t)]_vars

\* position of task t in the list lst
Pos(lst, t) == CHOOSE i \in 1..Len(lst) : lst[i] = t

\* C15: a step that changes the task list either appends the newly created
\* task at the end, or it changes nothing but the list and leaves in it exactly
\* the tasks whose status is not COMPLETED, each once and in their old order
C15_CleanupOnly ==
    [][tasks' # tasks =>
         \/ /\ created' = created + 1
            /\ tasks' = Append(tasks, created')
         \/ /\ UNCHANGED <<task, created, workers, active_downloads>>
            /\ {tasks'[i] : i \in 1..Len(tasks')} =
                  {tasks[i] : i \in {j \in 1..Len(tasks) : Status(tasks[j]) # COMPLETED}}
            /\ \A i \in 1..Len(tasks') : \A j \in 1..Len(tasks') :
                  i < j => Pos(tasks, tasks'[i]) < Pos(tasks, tasks'[j])]_vars

\* the completed second task was removed; the first (ERROR) and the third
\* (admitted) stay in the list in their order
C15_Witness ==
    /\ created = 3
    /\ tasks = <<1, 3>>
    /\ Status(1) = ERROR
    /\ Status(2) = COMPLETED
    /\ Status(3) = DOWNLOADING

\* C16: whenever a status has been written and the update callback has not
\* been called since, the writing worker is on its way to the call in its
\* closing section (completion callback, slot release, update callback)
C16_UpdateAfterChange ==
    unreported =>
       \E w \in DOMAIN workers : workers[w].pc \in {"callback", "release", "admit"}

C18_MakedirsFails ==
    [][/\ \A d \in DiskStates :
             (created < n_tasks /\ add_download(created + 1, d)
                /\ d.final = Absent /\ ~d.dir) =>
                /\ returned'[created + 1] = "raised"
                /\ UNCHANGED <<tasks, task, workers, attempts, active_downloads>>
       /\ \A t \in TaskIds :
             (returned[t] # "raised" /\ returned'[t] = "raised") =>
                /\ finalFile'[t] = Absent
                /\ UNCHANGED <<tasks, task, workers, attempts, active_downloads>>]_vars

\* the second submission failed on its directory while the first task is
\* transferring and a slot is free: the task is not in the list and not started
C18_Witness ==
    /\ max_concurrent_downloads = 2
    /\ returned[2] = "raised"
    /\ tasks = <<1>>
    /\ Status(1) = DOWNLOADING
    /\ Status(2) = QUEUED
    /\ attempts[2] = 0
    /\ active_downloads = 1

\* some task of the list waits for a slot
QueuedInList == \E i \in 1..Len(tasks) : Status(tasks[i]) = QUEUED
\* worker w releases its slot in this step
Releases(w) ==
    /\ w \in DOMAIN workers'
    /\ workers[w].pc # "admit"
    /\ workers'[w].pc = "admit"

\* C19: every failure of an attempt is handled inside its worker, which goes on
\* to its slot release; a worker releases its slot from the end of its attempt
\* (after success, re-queue with back-off, or ERROR), by exactly one, and never
\* again; it ends only after the release, and in the step in which it ends the
\* update callback is called first and the admission of the next queued task
\* second (a task is admitted iff a slot is free and a task waits)
C19_WorkerClosing ==
    /\ [][\A w \in DOMAIN workers :
            /\ Releases(w) =>
                  /\ workers[w].pc \in {"backoff", "release"}
                  /\ active_downloads' = active_downloads - 1
            /\ (workers[w].pc = "admit" /\ w \in DOMAIN workers') =>
                  workers'[w].pc = "admit"
            /\ w \notin DOMAIN workers' =>
                  /\ workers[w].pc = "admit"
                  /\ unreported' = (task' # task)
                  /\ IF active_downloads < max_concurrent_downloads /\ QueuedInList
                     THEN /\ active_downloads' = active_downloads + 1
                          /\ \E u \in Submitted :
                                /\ Status(u) = QUEUED
                                /\ task'[u].status = DOWNLOADING
                                /\ <<u, attempts[u] + 1>> \in DOMAIN workers'
                     ELSE UNCHANGED <<task, active_downloads>>]_vars
    /\ [][\A t \in Submitted :
            failures'[t] > failures[t] =>
               \E w \in DOMAIN workers :
                  /\ w[1] = t
                  /\ workers[w].pc \in {"begin", "stream", "pausewait", "callback"}
                  /\ w \in DOMAIN workers'
                  /\ workers'[w].pc \in {"backoff", "release"}]_vars
    /\ [][active_downloads' < active_downloads =>
            /\ active_downloads' = active_downloads - 1
            /\ Cardinality({w \in DOMAIN workers : Releases(w)}) = 1]_vars

\* ceiling 1: the worker of the first task ended after ERROR, the worker of the
\* second after a success, and the third task was admitted
C19_Witness ==
    /\ max_concurrent_downloads = 1
    /\ created = 3
    /\ Status(1) = ERROR
    /\ Status(2) = COMPLETED
    /\ cbCount[2] = 1
    /\ Status(3) = DOWNLOADING
    /\ DOMAIN workers = {<<3, 1>>}
    /\ active_downloads = 1

\* C20: 0 <= active_downloads <= max_concurrent_downloads, and active_downloads
\* is the number of worker threads launched that have not released their slot;
\* the count goes up only by one, for one new thread, from below the ceiling,
\* so two admission attempts with one free slot start at most one task
C20_ActiveCount ==
    /\ [](/\ 0 <= active_downloads
          /\ active_downloads <= max_concurrent_downloads
          /\ active_downloads =
                Cardinality({w \in DOMAIN workers : workers[w].pc # "admit"}))
    /\ [][active_downloads' > active_downloads =>
            /\ active_downloads < max_concurrent_downloads
            /\ active_downloads' = active_downloads + 1
            /\ Cardinality(DOMAIN workers' \ DOMAIN workers) = 1]_vars

\* one free slot, two tasks waiting, and two worker threads that have released
\* their slots and are both about to call the admission
C20_Witness ==
    /\ max_concurrent_downloads = 1
    /\ active_downloads = 0
    /\ Cardinality({t \in Submitted : InList(t) /\ Status(t) = QUEUED}) >= 2
    /\ Cardinality({w \in DOMAIN workers : workers[w].pc = "admit"}) = 2

\* the tasks whose status goes from QUEUED to DOWNLOADING in this step
Admitted == {t \in TaskIds : Status(t) = QUEUED /\ task'[t].status = DOWNLOADING}
\* task t is the first QUEUED task of the list lst
IsFirstQueuedInList(t, lst) ==
    \E i \in 1..Len(lst) :
       /\ lst[i] = t
       /\ Status(t) = QUEUED
       /\ \A j \in 1..(i - 1) : Status(lst[j]) # QUEUED

\* C21: a call of _start_next_download in any reachable state changes nothing
\* when active_downloads is at the ceiling; and every step admits at most one
\* task, only below the ceiling, and that task is the first QUEUED task in list
\* order (the list as the call finds it), re-queued or not
C21_StartNext ==
    /\ [](LET r == start_next_download(task, tasks, active_downloads, workers,
                                       attempts)
          IN  /\ active_downloads >= max_concurrent_downloads =>
                    /\ r.task = task
                    /\ r.active = active_downloads
                    /\ r.workers = workers
              /\ Cardinality({t \in TaskIds : r.task[t] # task[t]}) <= 1
              /\ \A t \in TaskIds : r.task[t] # task[t] => IsFirstQueuedInList(t, tasks))
    /\ [][/\ Cardinality(Admitted) <= 1
          /\ \A t \in Admitted :
                /\ active_downloads < max_concurrent_downloads
                /\ IsFirstQueuedInList(t, tasks')]_vars

\* a re-queued first task and a later task both wait while a slot is free (the
\* failed worker has released and is about to call the admission)
C21_Witness ==
    /\ created >= 2
    /\ Status(1) = QUEUED
    /\ task[1].retry_count > 0
    /\ Status(2) = QUEUED
    /\ InList(1)
    /\ InList(2)
    /\ active_downloads < max_concurrent_downloads

\* the status changes of the specified state machine
Allowed ==
    {<<QUEUED, DOWNLOADING>>, <<DOWNLOADING, PAUSED>>, <<PAUSED, DOWNLOADING>>,
     <<DOWNLOADING, COMPLETED>>, <<DOWNLOADING, ERROR>>, <<DOWNLOADING, QUEUED>>,
     <<DOWNLOADING, STOPPED>>}

\* C22: every change of the status of a task that add_download has accepted
\* is one of the transitions of the state machine
C22_StateMachine ==
    [][\A t \in Submitted :
         task'[t].status # Status(t) => <<Status(t), task'[t].status>> \in Allowed]_vars

\* C25: the file at full_path changes only when a worker of the task has read
\* its stream to the end; that step renames the .tmp file onto full_path and
\* sets COMPLETED with progress 100, and the completion callback comes after
\* it. So a task completed by a worker has its final file and no .tmp file,
\* the final file holds at least a whole response, and the callback is never
\* called for a task whose file is not in place
C25_RenameThenCompleted ==
    /\ [](\A t \in Submitted :
            /\ (Status(t) = COMPLETED /\ Started(t)) =>
                   (finalFile[t] # Absent /\ tmpFile[t] = Absent)
            /\ (Started(t) /\ finalFile[t] # Absent) =>
                   (Status(t) = COMPLETED /\ Len(finalFile[t]) >= n_bytes))
    /\ [][\A t \in Submitted :
            /\ finalFile'[t] # finalFile[t] =>
                 /\ \E w \in DOMAIN workers :
                       /\ w[1] = t
                       /\ workers[w].pc = "stream"
                       /\ workers[w].body = <<>>
                       /\ workers'[w].pc = "callback"
                 /\ tmpFile[t] # Absent
                 /\ finalFile'[t] = tmpFile[t]
                 /\ tmpFile'[t] = Absent
                 /\ task'[t].status = COMPLETED
                 /\ task'[t].progress = 100
                 /\ cbCount'[t] = cbCount[t]
            /\ cbCount'[t] # cbCount[t] =>
                 (Status(t) = COMPLETED /\ finalFile[t] # Absent /\ tmpFile[t] = Absent)]_vars

\* a task completed by its second attempt, callback done
C25_Witness ==
    \E t \in Submitted :
       /\ Status(t) = COMPLETED
       /\ attempts[t] = 2
       /\ finalFile[t] = Resource
       /\ tmpFile[t] = Absent
       /\ cbCount[t] = 1

\* C26: a failure with retry budget left adds one to retry_count, sets QUEUED,
\* records the message and leaves the .tmp file as it is (its length is
\* downloaded_size); a .tmp file disappears only when the status becomes
\* ERROR or when it is renamed onto full_path
C26_RetryKeepsTmp ==
    [][\A t \in Submitted :
         /\ (failures'[t] > failures[t] /\ task[t].retry_count < max_retries) =>
              /\ task'[t].retry_count = task[t].retry_count + 1
              /\ task'[t].status = QUEUED
              /\ task'[t].error_message \in
                    {"HTTP", "network", "Download stopped by user", "Download stopped"}
              /\ tmpFile'[t] = tmpFile[t]
              /\ tmpFile'[t] # Absent => Len(tmpFile'[t]) = task'[t].downloaded_size
         /\ (tmpFile[t] # Absent /\ tmpFile'[t] = Absent) =>
              \/ Status(t) # ERROR /\ task'[t].status = ERROR
              \/ finalFile'[t] = tmpFile[t] /\ task'[t].status = COMPLETED]_vars

\* a re-queued task whose partial .tmp file was kept
C26_Witness ==
    \E t \in Submitted :
       /\ Status(t) = QUEUED
       /\ task[t].retry_count = 1
       /\ task[t].error_message = "network"
       /\ tmpFile[t] # Absent
       /\ Len(tmpFile[t]) >= 1
       /\ Len(tmpFile[t]) < n_bytes

\* C27: a worker that finds paused set (and stopped not set) at a chunk
\* boundary sets PAUSED and writes nothing; while it waits nothing is written
\* and the status stays PAUSED; it leaves the wait either with stopped not set,
\* and then the status is DOWNLOADING again and the held chunk is appended, or
\* with stopped set, and then the attempt is aborted with the stop message and
\* the held chunk is not written
C27_PauseWait ==
    [][\A w \in DOMAIN workers :
         LET t == w[1]
             held == Head(workers[w].body)
             gone == w \notin DOMAIN workers'
         IN  /\ (workers[w].pc = "stream" /\ workers[w].body # <<>>
                 /\ task[t].paused /\ ~task[t].stopped /\ workers' # workers
                 /\ ~gone /\ workers'[w] # workers[w] /\ failures'[t] = failures[t]) =>
                   /\ workers'[w].pc = "pausewait"
                   /\ workers'[w].body = workers[w].body
                   /\ task'[t].status = PAUSED
                   /\ tmpFile'[t] = tmpFile[t]
                   /\ task'[t].downloaded_size = task[t].downloaded_size
             /\ workers[w].pc = "pausewait" =>
                   /\ ~gone
                   /\ Status(t) = PAUSED
                   /\ workers'[w].pc = "pausewait" =>
                        (tmpFile'[t] = tmpFile[t] /\ task'[t].status = PAUSED)
                   /\ workers'[w].pc # "pausewait" =>
                        IF task[t].stopped
                        THEN /\ workers'[w].pc \in {"backoff", "release"}
                             /\ task'[t].error_message = "Download stopped"
                             /\ stopAborts'[t] = stopAborts[t] + 1
                             /\ tmpFile'[t] \in {tmpFile[t], Absent}
                             /\ task'[t].downloaded_size = task[t].downloaded_size
                        ELSE /\ ~task[t].paused
                             /\ workers'[w].pc = "stream"
                             /\ workers'[w].body = Tail(workers[w].body)
                             /\ task'[t].status = DOWNLOADING
                             /\ tmpFile'[t] = Append(tmpFile[t], held)
                             /\ task'[t].downloaded_size = task[t].downloaded_size + 1]_vars

\* an attempt was aborted by a stop seen in the pause wait: the .tmp file
\* holds what was written before the pause
C27_Witness ==
    \E t \in Submitted :
       /\ task[t].error_message = "Download stopped"
       /\ task[t].stopped
       /\ tmpFile[t] # Absent
       /\ Len(tmpFile[t]) >= 1
       /\ Len(tmpFile[t]) < n_bytes
       /\ Len(tmpFile[t]) = task[t].downloaded_size

\* the workers of task t that are between the HTTP request and the rename
InTransfer(t) ==
    {w \in DOMAIN workers : w[1] = t /\ workers[w].pc \in {"begin", "stream", "pausewait"}}

\* C29: at most one worker of a task is between the HTTP request and the
\* rename, and any other worker of the task has left its try block
C29_SingleWriter ==
    \A t \in TaskIds :
       /\ Cardinality(InTransfer(t)) <= 1
       /\ \A w \in DOMAIN workers :
             (w[1] = t /\ w \notin InTransfer(t) /\ InTransfer(t) # {}) =>
                 workers[w].pc \in {"backoff", "release", "admit"}

\* a re-queued task is transferred by a new worker while the worker of the
\* failed attempt is still in its back-off
C29_Witness ==
    \E t \in Submitted :
       /\ InTransfer(t) # {}
       /\ \E w \in DOMAIN workers : w[1] = t /\ workers[w].pc = "backoff"
       /\ tmpFile[t] # Absent

\* C30: a task with a failed attempt is admitted again only when no worker of
\* the task is still in its back-off or before the release of its slot
C30_BackoffBeforeRetry ==
    [][\A t \in Admitted :
         \A w \in DOMAIN workers : w[1] = t => workers[w].pc = "admit"]_vars

\* C23: under fair scheduling every accepted task eventually has a terminal
\* status; in particular no QUEUED task waits forever
C23_EventuallyTerminal ==
    \A t \in TaskIds : [](t \in Submitted => <>(Status(t) \in Terminal))

\* with one slot, the second task waited behind the first, whose attempts all
\* failed, and then completed; every worker has ended
C23_Witness ==
    /\ max_concurrent_downloads = 1
    /\ created = 2
    /\ Status(1) = ERROR
    /\ task[1].retry_count = 1
    /\ Status(2) = COMPLETED
    /\ Started(2)
    /\ DOMAIN workers = {}

\* the positions at which a worker is in network I/O, in the pause wait, in
\* the throttle or back-off sleep, or inside a callback
OutsideLock == {"begin", "stream", "pausewait", "callback", "backoff", "release", "admit"}

\* C24: the lock is held only by a thread inside the slot release or inside
\* _start_next_download; a worker at any other position does not hold it, and
\* the next step of the holder leaves the locked section
C24_LockScope ==
    /\ [](/\ download_lock # Unlocked =>
               \/ download_lock = GuiThread /\ gui = "locked"
               \/ /\ download_lock \in DOMAIN workers
                  /\ workers[download_lock].pc \in {"releasing", "admitting"}
          /\ \A w \in DOMAIN workers :
                workers[w].pc \in OutsideLock => download_lock # w
          /\ gui # "locked" => download_lock # GuiThread)
    /\ [][\A w \in DOMAIN workers :
            (download_lock = w /\ (w \notin DOMAIN workers' \/ workers'[w] # workers[w]))
               => download_lock' = Unlocked]_vars

\* a worker holds the lock for its slot release while another worker is in
\* the pause wait
C24_Witness ==
    /\ download_lock # Unlocked
    /\ \E w, v \in DOMAIN workers :
          /\ download_lock = w
          /\ workers[w].pc = "releasing"
          /\ workers[v].pc = "pausewait"

\* C28: after show_settings has replaced the manager, the number of tasks in
\* status DOWNLOADING is at most the new ceiling and no task is transferred
\* by two workers at once
C28_SettingsChange ==
    old_max_concurrent_downloads # 0 =>
        /\ NumWithStatus(DOWNLOADING) <= max_concurrent_downloads
        /\ \A t \in TaskIds : Cardinality(InTransfer(t)) <= 1

\* C31: the tasks in status DOWNLOADING or PAUSED are at most active_downloads
\* many, so get_active_downloads_count() is at most active_downloads
C31_PausedKeepsSlot ==
    /\ NumWithStatus(DOWNLOADING) + NumWithStatus(PAUSED) <= active_downloads
    /\ get_active_downloads_count(task, tasks) <= active_downloads

\* one task is PAUSED and another is DOWNLOADING: both slots are taken and
\* get_active_downloads_count() is smaller than active_downloads
C31_Witness ==
    /\ NumWithStatus(PAUSED) = 1
    /\ NumWithStatus(DOWNLOADING) = 1
    /\ active_downloads = 2
    /\ get_active_downloads_count(task, tasks) = 1

C32_ResumeNotLost ==
    \A t \in TaskIds :
       [](calls[t] = "resumed" =>
            <>(\/ ~task[t].paused /\ Status(t) # PAUSED
               \/ task[t].stopped
               \/ Status(t) \in Terminal))

\* a QUEUED task of the list and a free slot
FreeSlotAndWaiting == QueuedInList /\ active_downloads < max_concurrent_downloads
\* the workers started so far
Launches == Sum(attempts, TaskIds)
MaxLaunches == NTasks * (MaxRetriesBound + 1)

\* C33: whenever a task of the list is QUEUED and active_downloads is below
\* the ceiling, a worker is eventually started, with no step of the caller
\* required
C33_WorkConservation ==
    \A n \in 0..MaxLaunches :
       (FreeSlotAndWaiting /\ Launches = n) ~> (Launches > n)

\* a re-queued task waits while the second slot is free and its failed worker
\* is in back-off
C33_Witness ==
    /\ FreeSlotAndWaiting
    /\ created = 1
    /\ \E w \in DOMAIN workers : workers[w].pc = "backoff"

\* the step by which the holder of the lock leaves its locked section
HolderLeaves ==
    \/ download_lock = GuiThread /\ GuiStartNext
    \/ \E w \in DOMAIN workers : download_lock = w /\ (ReleaseSlot(w) \/ StartNext(w))

\* every worker id of a run
WorkerIds == TaskIds \X (1..(MaxRetriesBound + 1))

\* C34: whenever the lock is held its holder can leave the locked section;
\* the GUI thread waiting for the lock in add_download gets it and returns;
\* and every worker that has entered its finally block, where it takes the
\* lock twice, ends
C34_NoLockDeadlock ==
    /\ [](download_lock # Unlocked => ENABLED HolderLeaves)
    /\ (gui # "idle") ~> (gui = "idle")
    /\ \A w \in WorkerIds :
          (w \in DOMAIN workers /\ workers[w].pc \in {"backoff", "release", "admit"})
             ~> (w \notin DOMAIN workers)

\* the GUI thread waits in add_download for the lock that an ending worker
\* holds in _start_next_download
C34_Witness ==
    /\ gui = "start_next"
    /\ \E w \in DOMAIN workers :
          download_lock = w /\ workers[w].pc = "admitting"

\* C36: every accepted task that is not COMPLETED is in the list of the
\* manager, also when add_download runs between the two steps of
\* cleanup_completed
C36_NoTaskLost ==
    \A t \in Submitted : Status(t) # COMPLETED => InList(t)

====
